---- MODULE Spec2Model ----
(***************************************************************************)
(* forex_matrices: the self-response year aggregation, the construction of *)
(* the yearly return table and its correlation, and the eigenvector        *)
(* extraction, as state machines over a file-backed store.                 *)
(*                                                                         *)
(* Numbers.  Prices are small positive integers and a return               *)
(* (m[j] - m[i]) / m[i] is kept exactly as the integer                     *)
(* (m[j] - m[i]) * (PriceScale \div m[i]); PriceScale is a common multiple *)
(* of every price.  A quotient of the aggregator is a record               *)
(* [kind, n, d]: "finite" n/d, or what IEEE division by zero gives.        *)
(***************************************************************************)
EXTENDS Integers, Sequences, FiniteSets, TLC

VARIABLES
    \* ---- year aggregator (hist_fx_self_response_year_responses_physical_data)
    partitions,     \* the Store for one (fx_pair, year): week -> partition
    agg_pc,         \* "idle" | "pool" | "done"
    self_values,    \* pool.starmap's result list, one slot per week
    completed,      \* the weeks in the order their Kernel task returned
    self_response_val,  \* the curve N_total / D_total
    self_response_avg,  \* D_total
    \* ---- the file system (Store and Sink) used by the matrices and
    \* ---- eigenvectors stages: path -> content
    files,
    year,           \* the year of the run
    tie_rank,       \* how this numpy build orders equal keys in argsort
    \* ---- hist_fx_returns_year_physical_data
    bt_pc,          \* "idle" | "load" | "save" | "done" | "nodata"
    bt_pair,        \* index in fx_pairs of the pair being read
    bt_week,        \* index in weeks of the next file to read
    fx_series_concat,
    fx_df_concat,
    \* ---- hist_fx_correlations_physical_data
    corr_pc,        \* interval -> "idle" | "done" | "nodata"
    corr_shown,     \* interval -> the matrices the call computed
    \* ---- hist_fx_eigenvectors_physical_data, one task per interval
    eig_pc,         \* interval -> "queued" | "run" | "done" | "nodata"
    t_idx,          \* interval -> loop index of the task
    time_int,       \* interval -> the date_range the task computed
    \* ---- the sorting of one decomposition (lines 72-83 and 107-118)
    sort_pc,        \* "loaded" | "year" | "loop"
    fx_corr,        \* the correlation matrix that was loaded
    eig_vec_sort_df,\* the table built from it
    \* ---- the writes of the eigenvectors tasks, as they happened
    eig_written,    \* the set of [task, key]: the task wrote the key
    eig_stdout,     \* interval -> the lines the task's except printed
    \* ---- one call of the Kernel on one partition
    kern_pc,        \* "ready" | "returned"
    kern_arg,       \* the partition (M, S) the call is given
    kern_ret,       \* the (num, den) the call returned
    \* ---- a stage that is run again on the Store it was run on
    rerun,          \* TRUE when the stage has been run to its end before
    \* ---- the plot loop of the eigenvectors main (hist_data_plot_generator)
    plot_calls      \* the plot calls made so far, each with the keys it opened

aggVars == <<partitions, agg_pc, self_values, completed,
             self_response_val, self_response_avg>>
btVars == <<bt_pc, bt_pair, bt_week, fx_series_concat, fx_df_concat>>
corrVars == <<corr_pc, corr_shown>>
eigVars == <<eig_pc, t_idx, time_int, eig_written, eig_stdout>>
sortVars == <<sort_pc, fx_corr, eig_vec_sort_df>>
kernVars == <<kern_pc, kern_arg, kern_ret>>
vars == <<aggVars, files, year, tie_rank, btVars, corrVars, eigVars, sortVars,
          kernVars, rerun, plot_calls>>

(***************************************************************************)
(* Bounds                                                                  *)
(***************************************************************************)
NumWeeks == 3       \* weeks the aggregator dispatches in the model
MaxLag == 2         \* T, the number of lags
NumPairs == 3       \* instruments of a correlation matrix
MaxEig == 2         \* eigenvalues are drawn from 1..MaxEig
NumProcs == 2       \* mp.cpu_count(): the worker processes of a pool
MaxLen == 4         \* rows of a partition given to one Kernel call

(***************************************************************************)
(* Helpers                                                                 *)
(***************************************************************************)
RECURSIVE SumTo(_, _)
SumTo(f, n) == IF n = 0 THEN 0 ELSE f[n] + SumTo(f, n - 1)

RECURSIVE ProdSet(_)
ProdSet(S) == IF S = {} THEN 1
              ELSE LET x == CHOOSE y \in S : TRUE IN x * ProdSet(S \ {x})

Reverse(s) == [k \in 1..Len(s) |-> s[Len(s) + 1 - k]]

Perms(n) == {p \in [1..n -> 1..n] : \A i, j \in 1..n : i # j => p[i] # p[j]}

(***************************************************************************)
(* hist_weeks: the tuple '01' .. '53'                                      *)
(***************************************************************************)
WeeksInYear == 53

\* hist_weeks with a fault: the numbers below 10 are not padded.
HistWeeksUnpadded == [val \in 1..WeeksInYear |-> ToString(val)]

hist_weeks == [val \in 1..WeeksInYear |->
                 IF val < 10 THEN "0" \o ToString(val) ELSE ToString(val)]

(***************************************************************************)
(* Self-Response Kernel (one week).  Its code is not part of the sources;  *)
(* it follows the contract of the specification.                           *)
(***************************************************************************)
Mids == {1, 2}
Signs == {-1, 0, 1}
PriceScale == ProdSet(Mids)

Lags == 1..MaxLag       \* lag tau = k - 1 is stored at position k

ZeroVec == [k \in Lags |-> 0]
ZeroAcc == [num |-> ZeroVec, den |-> ZeroVec]

Absent == [present |-> FALSE, M |-> <<>>, S |-> <<>>]

\* The Kernel with a fault: the returns are summed without their sign.
KernelUnsigned(p) ==
    IF ~p.present THEN ZeroAcc
    ELSE LET mp == SubSeq(p.M, 1, Len(p.M) - 1)
             sp == SubSeq(p.S, 2, Len(p.S))
             n  == Len(mp)
             Rng(tau) == 1..(n - tau - 1)
             Term(tau) == [i \in Rng(tau) |->
                             (mp[i + tau + 1] - mp[i]) * (PriceScale \div mp[i])]
             Cnt(tau) == [i \in Rng(tau) |-> IF sp[i] # 0 THEN 1 ELSE 0]
             Top(tau) == IF n - tau - 1 > 0 THEN n - tau - 1 ELSE 0
         IN [num |-> [k \in Lags |-> SumTo(Term(k - 1), Top(k - 1))],
             den |-> [k \in Lags |-> SumTo(Cnt(k - 1), Top(k - 1))]]

\* The Kernel with a fault: the signs are not shifted, sign' = S[:-1].
KernelUnshifted(p) ==
    IF ~p.present THEN ZeroAcc
    ELSE LET mp == SubSeq(p.M, 1, Len(p.M) - 1)
             sp == SubSeq(p.S, 1, Len(p.S) - 1)
             n  == Len(mp)
             Rng(tau) == 1..(n - tau - 1)
             Term(tau) == [i \in Rng(tau) |->
                             sp[i] * (mp[i + tau + 1] - mp[i])
                                   * (PriceScale \div mp[i])]
             Cnt(tau) == [i \in Rng(tau) |-> IF sp[i] # 0 THEN 1 ELSE 0]
             Top(tau) == IF n - tau - 1 > 0 THEN n - tau - 1 ELSE 0
         IN [num |-> [k \in Lags |-> SumTo(Term(k - 1), Top(k - 1))],
             den |-> [k \in Lags |-> SumTo(Cnt(k - 1), Top(k - 1))]]

Kernel(p) ==
    IF ~p.present THEN ZeroAcc
    ELSE LET mp == SubSeq(p.M, 1, Len(p.M) - 1)
             sp == SubSeq(p.S, 2, Len(p.S))
             n  == Len(mp)
             \* 0-based i with i + tau + 1 < n  <=>  1-based i in 1..n-tau-1
             Rng(tau) == 1..(n - tau - 1)
             Term(tau) == [i \in Rng(tau) |->
                             sp[i] * (mp[i + tau + 1] - mp[i])
                                   * (PriceScale \div mp[i])]
             Cnt(tau) == [i \in Rng(tau) |-> IF sp[i] # 0 THEN 1 ELSE 0]
             Top(tau) == IF n - tau - 1 > 0 THEN n - tau - 1 ELSE 0
         IN [num |-> [k \in Lags |-> SumTo(Term(k - 1), Top(k - 1))],
             den |-> [k \in Lags |-> SumTo(Cnt(k - 1), Top(k - 1))]]

(***************************************************************************)
(* Year aggregator                                                         *)
(***************************************************************************)
\* weeks = hist_weeks(), of which the first NumWeeks are dispatched here.
weeks == SubSeq(hist_weeks, 1, NumWeeks)
WeekIdx == 1..Len(weeks)

Pending == [num |-> <<>>, den |-> <<>>]

\* The partitions a week of the Store may hold in the model.
SamplePartitions ==
    { [present |-> TRUE, M |-> <<1, 2, 1, 2>>, S |-> <<0, 1, -1, 1>>],
      [present |-> TRUE, M |-> <<1, 1, 2, 2>>, S |-> <<1, 0, 0, 0>>],
      [present |-> TRUE, M |-> <<2, 2, 1, 1>>, S |-> <<0, -1, 1, 0>>] }

\* numpy true division, elementwise: x / 0 gives inf or nan and a warning,
\* it does not raise.
Divide(n, d) ==
    IF d # 0 THEN [kind |-> "finite", n |-> n, d |-> d]
    ELSE IF n = 0 THEN [kind |-> "nan", n |-> 0, d |-> 0]
    ELSE [kind |-> "inf", n |-> n, d |-> 0]

\* The reduction with a fault: the last week's result is left out.
SumAxis0DropLast(vals) ==
    [num |-> [k \in Lags |->
                SumTo([w \in 1..(Len(vals) - 1) |-> vals[w].num[k]],
                      Len(vals) - 1)],
     den |-> [k \in Lags |->
                SumTo([w \in 1..(Len(vals) - 1) |-> vals[w].den[k]],
                      Len(vals) - 1)]]

\* The reduction with a fault: the results are subtracted alternately
\* instead of added.
RECURSIVE DiffTo(_, _)
DiffTo(f, n) == IF n = 0 THEN 0 ELSE f[n] - DiffTo(f, n - 1)

SumAxis0Alternating(vals) ==
    [num |-> [k \in Lags |->
                DiffTo([w \in 1..Len(vals) |-> vals[w].num[k]], Len(vals))],
     den |-> [k \in Lags |->
                DiffTo([w \in 1..Len(vals) |-> vals[w].den[k]], Len(vals))]]

\* np.sum(self_values[0], axis=0): the elementwise sum over the weeks, in
\* list order.
SumAxis0(vals) ==
    [num |-> [k \in Lags |->
                SumTo([w \in 1..Len(vals) |-> vals[w].num[k]], Len(vals))],
     den |-> [k \in Lags |->
                SumTo([w \in 1..Len(vals) |-> vals[w].den[k]], Len(vals))]]

ResponseOf(total) == [k \in Lags |-> Divide(total.num[k], total.den[k])]

fx_pair == "eur_usd"

\* hist_save_data(data, fx_pair, year) of the matrices tools: the path of
\* the pickle it dumps.
ResponsePath(pair, y) ==
    "../../hist_data/responses_physical_" \o ToString(y)
    \o "/hist_fx_self_response_year_responses_physical_data/" \o pair
    \o "/hist_fx_self_response_year_responses_physical_data_" \o pair
    \o "_" \o ToString(y) \o ".pickle"

\* The dump with a fault: the file is opened for appending, so a second
\* dump under the same path adds to what is there.
DumpAppending(fs, path, data) ==
    [q \in DOMAIN fs \cup {path} |->
        IF q # path THEN fs[q]
        ELSE IF path \in DOMAIN fs THEN <<fs[path], data>> ELSE data]

\* The dump with a fault: a copy is written next to the file.
DumpWithSidecar(fs, path, data) ==
    [q \in DOMAIN fs \cup {path, path \o ".bak"} |->
        IF q = path \/ q = path \o ".bak" THEN data ELSE fs[q]]

\* pickle.dump(data, open(path, 'wb')): creates or overwrites one file.
Dump(fs, path, data) ==
    [q \in DOMAIN fs \cup {path} |-> IF q = path THEN data ELSE fs[q]]

NoFiles == [q \in {} |-> 0]

\* A component that takes no part in a specification stays as it is here.
IdleAgg ==
    /\ partitions = [w \in WeekIdx |-> Absent]
    /\ agg_pc = "off"
    /\ self_values = [w \in WeekIdx |-> Pending]
    /\ completed = <<>>
    /\ self_response_val = <<>>
    /\ self_response_avg = <<>>

IdleBuild ==
    /\ bt_pc = "off"
    /\ bt_pair = 1
    /\ bt_week = 1
    /\ fx_series_concat = <<>>
    /\ fx_df_concat = <<>>

\* intervals of main, in the order iprod(years, intervals) submits them
intervals == <<"week", "month", "quarter", "year">>
Intervals == {intervals[k] : k \in 1..Len(intervals)}

IdleCorr ==
    /\ corr_pc = [i \in Intervals |-> "off"]
    /\ corr_shown = [i \in Intervals |-> <<>>]

IdleEig ==
    /\ eig_pc = [i \in Intervals |-> "off"]
    /\ t_idx = [i \in Intervals |-> 0]
    /\ time_int = [i \in Intervals |-> <<>>]
    /\ eig_written = {}
    /\ eig_stdout = [i \in Intervals |-> <<>>]

NoCorr == [columns |-> <<>>, eig_val |-> <<>>]
NoTable == [data |-> <<>>, columns |-> <<>>]

IdleSort ==
    /\ sort_pc = "off"
    /\ fx_corr = NoCorr
    /\ eig_vec_sort_df = NoTable

IdleKern ==
    /\ kern_pc = "off"
    /\ kern_arg = Absent
    /\ kern_ret = Pending

\* years of main
years == <<2019>>
Years == {years[k] : k \in 1..Len(years)}

InitAgg ==
    /\ partitions \in [WeekIdx -> SamplePartitions \cup {Absent}]
    /\ agg_pc = "idle"
    /\ self_values = [w \in WeekIdx |-> Pending]
    /\ completed = <<>>
    /\ self_response_val = <<>>
    /\ self_response_avg = <<>>
    /\ files = NoFiles
    /\ year \in Years
    /\ tie_rank = [i \in 1..NumPairs |-> i]
    /\ IdleBuild /\ IdleCorr /\ IdleEig /\ IdleSort /\ IdleKern
    /\ rerun = FALSE
    /\ plot_calls = <<>>

\* with mp.Pool(...) as pool: pool.starmap(kernel, iprod([fx_pair], [year], weeks))
AggDispatch ==
    /\ agg_pc = "idle"
    /\ agg_pc' = "pool"
    /\ UNCHANGED <<partitions, self_values, completed,
                   self_response_val, self_response_avg>>
    /\ UNCHANGED <<files, year, tie_rank, btVars, corrVars, eigVars, sortVars, kernVars, rerun, plot_calls>>

\* One Kernel task returns; starmap stores its result in the slot of its
\* argument, whatever the order of completion.
AggKernelTask ==
    /\ agg_pc = "pool"
    /\ \E w \in WeekIdx :
          /\ self_values[w] = Pending
          /\ self_values' = [self_values EXCEPT ![w] = Kernel(partitions[w])]
          /\ completed' = Append(completed, w)
    /\ UNCHANGED <<partitions, agg_pc, self_response_val, self_response_avg>>
    /\ UNCHANGED <<files, year, tie_rank, btVars, corrVars, eigVars, sortVars, kernVars, rerun, plot_calls>>

\* starmap has returned: sum, divide, save, return.
AggReduce ==
    /\ agg_pc = "pool"
    /\ \A w \in WeekIdx : self_values[w] # Pending
    /\ LET self_v_final == SumAxis0(self_values)
       IN /\ self_response_val' = ResponseOf(self_v_final)
          /\ self_response_avg' = self_v_final.den
          /\ files' = Dump(files, ResponsePath(fx_pair, year),
                           ResponseOf(self_v_final))
    /\ agg_pc' = "done"
    /\ UNCHANGED <<partitions, self_values, completed>>
    /\ UNCHANGED <<year, tie_rank, btVars, corrVars, eigVars, sortVars, kernVars, rerun, plot_calls>>

NextAgg == AggDispatch \/ AggKernelTask \/ AggReduce


(***************************************************************************)
(* Return table of a year (hist_fx_returns_year_physical_data)             *)
(***************************************************************************)
AllPairs == <<"eur_usd", "gbp_usd", "usd_jpy", "aud_usd",
              "usd_chf", "usd_cad", "nzd_usd">>
fx_pairs == SubSeq(AllPairs, 1, NumPairs)

\* The load of the return table with a fault: the 'w' before the week is
\* missing from the file name.
BasicPathNoPrefix(pair, y, week) ==
    "../../hist_data/physical_basic_data_" \o ToString(y)
    \o "/hist_fx_physical_basic_data/" \o pair
    \o "/hist_fx_physical_basic_data_" \o pair \o "_" \o week \o ".pickle"

\* hist_save_data(data, fx_pair, year, week) of the basic-data tools: the
\* path of the weekly pickle it dumps (lines 68-71).
BasicSavePath(pair, y, week) ==
    "../../hist_data/physical_basic_data_" \o ToString(y) \o "/hist_fx"
    \o "_physical_basic_data/" \o pair \o "/hist_fx_physical_basic"
    \o "_data_" \o pair \o "_w" \o week \o ".pickle"

\* The weekly pickle of a pair as the return table's construction opens it
\* (lines 58-61 and 67-70).
BasicPath(pair, y, week) ==
    "../../hist_data/physical_basic_data_" \o ToString(y)
    \o "/hist_fx_physical_basic_data/" \o pair
    \o "/hist_fx_physical_basic_data_" \o pair \o "_w" \o week \o ".pickle"

\* The pickle of the year's return table as the correlation stage opens it
\* (lines 116-119).
CorrReturnsPath(y) ==
    "../../hist_data/matrices_physical_" \o ToString(y) \o "/hist_fx"
    \o "_matrices_physical_data/hist_fx_returns_matrices_physical"
    \o "_data_" \o ToString(y) \o ".pickle"

\* The pickle of the year's return table as its construction dumps it
\* (line 89).
ReturnsPath(y) ==
    "../../hist_data/matrices_physical_" \o ToString(y)
    \o "/hist_fx_matrices_physical_data/hist_fx_returns_matrices_physical_data_"
    \o ToString(y) \o ".pickle"

\* The content of a weekly file: its Returns column, here one row, which
\* is the path the file was saved under.
BasicData(path) == [Returns |-> <<path>>]

\* The weeks of a pair that the model may leave out of the Store.
GapChoices == {0, 1, 2, WeeksInYear}

StoreOf(gap) ==
    LET have == {pw \in (1..NumPairs) \X (1..WeeksInYear) : gap[pw[1]] # pw[2]}
        paths == {BasicSavePath(fx_pairs[pw[1]], year, hist_weeks[pw[2]]) :
                     pw \in have}
    IN [q \in paths |-> BasicData(q)]

InitBuild ==
    /\ year \in Years
    /\ tie_rank = [i \in 1..NumPairs |-> i]
    /\ \E gap \in [1..NumPairs -> GapChoices] : files = StoreOf(gap)
    /\ bt_pc = "idle"
    /\ bt_pair = 1
    /\ bt_week = 1
    /\ fx_series_concat = <<>>
    /\ fx_df_concat = <<>>
    /\ corr_pc = [i \in Intervals |-> "idle"]
    /\ corr_shown = [i \in Intervals |-> <<>>]
    /\ IdleAgg /\ IdleEig /\ IdleSort /\ IdleKern
    /\ rerun = FALSE
    /\ plot_calls = <<>>

\* weeks = hist_weeks(); fx_df_concat = pd.DataFrame()
BtStart ==
    /\ bt_pc = "idle"
    /\ bt_pc' = "load"
    /\ bt_pair' = 1
    /\ bt_week' = 1
    /\ fx_series_concat' = <<>>
    /\ fx_df_concat' = <<>>
    /\ UNCHANGED <<aggVars, files, year, tie_rank, corrVars, eigVars, sortVars, kernVars, rerun, plot_calls>>

\* The added column with a fault: the rename is missing, the column keeps
\* the name 'Returns'.
NewColumnUnnamed(pair, series) == [name |-> "Returns", data |-> series]

\* pd.concat([fx_df_concat, fx_series_concat], axis=1)
\*    .rename(columns={'Returns': fx_pair}): the column that is added.
NewColumn(pair, series) == [name |-> pair, data |-> series]

\* The loops with a fault: the try is around one pair, so a pair with a
\* file that is not there is left out and the table is saved without it.
BtLoadSkippingPair ==
    /\ bt_pc = "load"
    /\ LET pair == fx_pairs[bt_pair]
           path == BasicPath(pair, year, hist_weeks[bt_week])
       IN IF path \notin DOMAIN files
          THEN /\ bt_week' = 1
               /\ IF bt_pair < Len(fx_pairs)
                  THEN bt_pair' = bt_pair + 1 /\ bt_pc' = bt_pc
                  ELSE bt_pair' = bt_pair /\ bt_pc' = "save"
               /\ UNCHANGED <<fx_series_concat, fx_df_concat>>
          ELSE LET series == IF bt_week = 1 THEN files[path].Returns
                             ELSE fx_series_concat \o files[path].Returns
               IN IF bt_week < WeeksInYear
                  THEN /\ fx_series_concat' = series
                       /\ bt_week' = bt_week + 1
                       /\ UNCHANGED <<bt_pc, bt_pair, fx_df_concat>>
                  ELSE /\ fx_series_concat' = series
                       /\ fx_df_concat' = Append(fx_df_concat, NewColumn(pair, series))
                       /\ bt_week' = 1
                       /\ IF bt_pair < Len(fx_pairs)
                          THEN bt_pair' = bt_pair + 1 /\ bt_pc' = bt_pc
                          ELSE bt_pair' = bt_pair /\ bt_pc' = "save"
    /\ UNCHANGED <<aggVars, files, year, tie_rank, corrVars, eigVars,
                   sortVars, kernVars, rerun, plot_calls>>

\* One pickle.load of the loops of lines 56-74.  A file that is not there
\* raises FileNotFoundError, which the except of line 95 catches: the
\* function prints 'No data' and returns.
BtLoad ==
    /\ bt_pc = "load"
    /\ LET pair == fx_pairs[bt_pair]
           path == BasicPath(pair, year, hist_weeks[bt_week])
       IN IF path \notin DOMAIN files
          THEN /\ bt_pc' = "nodata"
               /\ UNCHANGED <<bt_pair, bt_week, fx_series_concat, fx_df_concat>>
          ELSE LET series == IF bt_week = 1 THEN files[path].Returns
                             ELSE fx_series_concat \o files[path].Returns
               IN IF bt_week < WeeksInYear
                  THEN /\ fx_series_concat' = series
                       /\ bt_week' = bt_week + 1
                       /\ UNCHANGED <<bt_pc, bt_pair, fx_df_concat>>
                  ELSE /\ fx_series_concat' = series
                       /\ fx_df_concat' = Append(fx_df_concat, NewColumn(pair, series))
                       /\ bt_week' = 1
                       /\ IF bt_pair < Len(fx_pairs)
                          THEN bt_pair' = bt_pair + 1 /\ bt_pc' = bt_pc
                          ELSE bt_pair' = bt_pair /\ bt_pc' = "save"
    /\ UNCHANGED <<aggVars, files, year, tie_rank, corrVars, eigVars, sortVars, kernVars, rerun, plot_calls>>

\* pickle.dump(fx_df_concat, open(..., 'wb')) of line 89.
BtSave ==
    /\ bt_pc = "save"
    /\ files' = Dump(files, ReturnsPath(year), fx_df_concat)
    /\ bt_pc' = "done"
    /\ UNCHANGED <<bt_pair, bt_week, fx_series_concat, fx_df_concat>>
    /\ UNCHANGED <<aggVars, year, tie_rank, corrVars, eigVars, sortVars, kernVars, rerun, plot_calls>>

(***************************************************************************)
(* Correlation (hist_fx_correlations_physical_data)                        *)
(***************************************************************************)
\* fx_returns.corr(): one matrix, over every row of the table, whatever the
\* interval; it is shown as a heatmap and not saved.
Corr(fx_returns) ==
    [columns |-> [c \in 1..Len(fx_returns) |-> fx_returns[c].name],
     rows |-> "all"]

\* The call is a run of its own (main calls it alone): it does not overlap
\* a run of the return table's construction.
Correlate(interval) ==
    /\ corr_pc[interval] = "idle"
    /\ bt_pc \in {"idle", "done", "nodata"}
    /\ IF CorrReturnsPath(year) \in DOMAIN files
       THEN /\ corr_shown' = [corr_shown EXCEPT
                                ![interval] =
                                    <<Corr(files[CorrReturnsPath(year)])>>]
            /\ corr_pc' = [corr_pc EXCEPT ![interval] = "done"]
       ELSE /\ corr_pc' = [corr_pc EXCEPT ![interval] = "nodata"]
            /\ UNCHANGED corr_shown
    /\ UNCHANGED <<aggVars, files, year, tie_rank, btVars, eigVars, sortVars, kernVars, rerun, plot_calls>>

CorrelateAny == \E interval \in Intervals : Correlate(interval)

(***************************************************************************)
(* numpy and pandas                                                        *)
(***************************************************************************)
\* np.linalg.eig(fx_corr): the eigenvalues in the order the routine returns
\* them; column i of eig_vec is the eigenvector of eig_val[i] and is
\* written i.
Eig(corr) == [val |-> corr.eig_val,
              vec |-> [i \in 1..Len(corr.eig_val) |-> i]]

\* np.argsort(a): the indices that sort a in ascending order.  The default
\* kind is not stable: equal keys come in the order tie_rank of the build.
ArgLess(a, i, j) == a[i] < a[j] \/ (a[i] = a[j] /\ tie_rank[i] < tie_rank[j])

Argsort(a) ==
    [k \in 1..Len(a) |->
        CHOOSE i \in 1..Len(a) :
            Cardinality({j \in 1..Len(a) : ArgLess(a, j, i)}) = k - 1]

\* x[p]: indexing with an index array.
Take(x, p) == [k \in 1..Len(p) |-> x[p[k]]]

IsLeap(y) == (y % 4 = 0 /\ y % 100 # 0) \/ y % 400 = 0

\* The weekday of January 1 (0 is Sunday).
Jan1Weekday(y) ==
    (1 + 5 * ((y - 1) % 4) + 4 * ((y - 1) % 100) + 6 * ((y - 1) % 400)) % 7

MonthLen(y, m) ==
    IF m = 2 THEN (IF IsLeap(y) THEN 29 ELSE 28)
    ELSE IF m \in {4, 6, 9, 11} THEN 30 ELSE 31

RECURSIVE MonthStart(_, _)
MonthStart(y, m) == IF m = 1 THEN 1 ELSE MonthStart(y, m - 1) + MonthLen(y, m - 1)

DaysIn(y) == IF IsLeap(y) THEN 366 ELSE 365

\* pd.date_range(f'{year}-01-01', periods=periods, freq=freq), as days of
\* the year (1 is January 1).  'W' is anchored on Sunday: the range begins
\* on the first Sunday on or after the start.
DateRange(y, periods, freq) ==
    [k \in 1..periods |->
        IF freq = "W" THEN (1 + ((7 - Jan1Weekday(y)) % 7)) + 7 * (k - 1)
        ELSE IF freq = "MS" THEN MonthStart(y, k)
        ELSE MonthStart(y, 3 * (k - 1) + 1)]

(***************************************************************************)
(* Eigenvectors (hist_fx_eigenvectors_physical_data)                       *)
(***************************************************************************)
EigFreq(interval) ==
    IF interval = "week" THEN "W" ELSE IF interval = "month" THEN "MS" ELSE "QS"

EigPeriods(interval) ==
    IF interval = "week" THEN 52 ELSE IF interval = "month" THEN 12 ELSE 4

IdxStr(t) == IF t < 10 THEN "0" \o ToString(t) ELSE ToString(t)

\* The periods of the plot with a fault: 53 weeks, as hist_weeks has.
PlotPeriodsWeek53(interval) ==
    IF interval = "week" THEN 53
    ELSE IF interval = "month" THEN 12
    ELSE IF interval = "quarter" THEN 4 ELSE 1

\* The plot of the eigenvectors: the periods it reads for an interval and
\* the string of a period (lines 59-74 and 81-84 of the plot module).
PlotPeriods(interval) ==
    IF interval = "week" THEN 52
    ELSE IF interval = "month" THEN 12
    ELSE IF interval = "quarter" THEN 4 ELSE 1

PerStr(per) == IF per < 10 THEN "0" \o ToString(per) ELSE ToString(per)

CorrPath(y, interval, idx_str) ==
    "../../hist_data/matrices_physical_" \o ToString(y)
    \o "/hist_fx_matrices_physical_data/hist_fx_corr_physical_data_"
    \o ToString(y) \o "_int_" \o interval \o "_" \o idx_str \o ".pickle"

\* The path with a fault: the interval is missing from the file name.
EigPathNoInterval(y, interval, idx_str) ==
    "../../hist_data/eigenvectors_physical_" \o ToString(y)
    \o "/hist_fx_eigenvectors_physical_data/hist_fx_eigenvectors_physical_data_"
    \o ToString(y) \o "_" \o idx_str \o ".pickle"

\* The file hist_save_data(data, year, interval, idx) of the eigenvectors
\* tools writes: the path the plot module loads.
EigPath(y, interval, idx_str) ==
    "../../hist_data/eigenvectors_physical_" \o ToString(y)
    \o "/hist_fx_eigenvectors_physical_data/hist_fx_eigenvectors_physical_data_"
    \o ToString(y) \o "_int_" \o interval \o "_" \o idx_str \o ".pickle"

hist_save_data_eig(fs, data, y, interval, idx_str) ==
    Dump(fs, EigPath(y, interval, idx_str), data)

\* The year branch with a fault: the [::-1] is missing, the eigenvectors
\* stay in ascending order of their eigenvalues.
YearBranchTableAscending(corr) ==
    LET eig == Eig(corr)
    IN [data |-> Take(eig.vec, Argsort(eig.val)),
        columns |-> Take(corr.columns, Argsort(eig.val))]

\* The year branch written another way: descending order by sorting the
\* negated eigenvalues, np.argsort(-eig_val).
YearBranchTableNegated(corr) ==
    LET eig == Eig(corr)
        neg == [i \in 1..Len(eig.val) |-> 0 - eig.val[i]]
    IN [data |-> Take(eig.vec, Argsort(neg)),
        columns |-> Take(corr.columns, Argsort(neg))]

\* Lines 72-83: the table of the 'year' branch.
YearBranchTable(corr) ==
    LET eig == Eig(corr)
        eig_vec_sort == Take(eig.vec, Reverse(Argsort(eig.val)))
        cols_eig_vec_sort == Reverse(Take(corr.columns, Argsort(eig.val)))
    IN [data |-> eig_vec_sort, columns |-> cols_eig_vec_sort]

\* The loop branch with a fault: the labels are indexed by the ascending
\* order and not reversed.
LoopBranchTableLabelsAscending(corr) ==
    LET eig == Eig(corr)
    IN [data |-> Take(eig.vec, Reverse(Argsort(eig.val))),
        columns |-> Take(corr.columns, Argsort(eig.val))]

\* Lines 107-118: the table of one index of the loop branch.
LoopBranchTable(corr) ==
    LET eig == Eig(corr)
        eig_vec_sort == Take(eig.vec, Reverse(Argsort(eig.val)))
        cols_eig_vec_sort == Reverse(Take(corr.columns, Argsort(eig.val)))
    IN [data |-> eig_vec_sort, columns |-> cols_eig_vec_sort]

RECURSIVE Pow(_, _)
Pow(b, e) == IF e = 0 THEN 1 ELSE b * Pow(b, e - 1)

\* The correlation matrix the model stores under index idx: its labels and
\* the eigenvalues np.linalg.eig returns for it.  The indices run through
\* the eigenvalue sequences over 1..MaxEig.
SampleMatrix(idx) ==
    [columns |-> fx_pairs,
     eig_val |-> [i \in 1..NumPairs |->
                    (((idx - 1) \div Pow(MaxEig, i - 1)) % MaxEig) + 1]]

\* The (interval, index) whose matrix the model may leave out.
GapIndices(interval) ==
    IF interval = "year" THEN {1} ELSE {1, 2, EigPeriods(interval)}

CorrIndices(interval) ==
    IF interval = "year" THEN {1} ELSE 1..EigPeriods(interval)

MatrixGaps ==
    {{}} \cup {{<<i, x>>} : i \in Intervals, x \in {1, 2, 4, 12, 52}}

CorrStoreOf(gaps) ==
    LET have == {ix \in Intervals \X (1..52) :
                    ix[2] \in CorrIndices(ix[1]) /\ ix \notin gaps}
        IdxOf(q) == CHOOSE ix \in have : CorrPath(year, ix[1], IdxStr(ix[2])) = q
    IN [q \in {CorrPath(year, ix[1], IdxStr(ix[2])) : ix \in have} |->
          SampleMatrix(IdxOf(q)[2])]

\* except FileNotFoundError as error: print('No data'); print(error);
\* print() (lines 127-130).  str(error) names the file that was not found.
ExceptPrints(path) ==
    <<"No data", "[Errno 2] No such file or directory: '" \o path \o "'", "">>

\* What a task gives back to starmap: the function has no return statement,
\* on the normal path and in the except alike.
TaskReturn(pc) == "None"

\* The status with which the script ends: main prints 'Ay vamos!!!' and
\* returns, whatever the tasks met (main lines 70-93).
ExitStatus(pcs) == 0

InitEig ==
    /\ year \in Years
    /\ tie_rank = [i \in 1..NumPairs |-> i]
    /\ \E gaps \in MatrixGaps :
          /\ \A g \in gaps : g[2] \in GapIndices(g[1])
          /\ files = CorrStoreOf(gaps)
    /\ eig_pc = [i \in Intervals |-> "queued"]
    /\ t_idx = [i \in Intervals |-> 0]
    /\ time_int = [i \in Intervals |-> <<>>]
    /\ eig_written = {}
    /\ eig_stdout = [i \in Intervals |-> <<>>]
    /\ IdleAgg /\ IdleBuild /\ IdleCorr /\ IdleSort /\ IdleKern
    /\ rerun = FALSE
    /\ plot_calls = <<>>

\* A worker of the pool takes the next task of the queue and begins it
\* (lines 48-62, and the whole 'year' branch, or
\* line 89 of the loop branch).
EigStart(interval) ==
    /\ eig_pc[interval] = "queued"
    /\ \A k, l \in 1..Len(intervals) :
          k < l /\ intervals[l] = interval => eig_pc[intervals[k]] # "queued"
    /\ Cardinality({i \in Intervals : eig_pc[i] = "run"}) < NumProcs
    /\ LET freq == EigFreq(interval)
           periods == EigPeriods(interval)
       IN IF interval = "year"
          THEN LET path == CorrPath(year, interval, "01")
               IN IF path \in DOMAIN files
                  THEN /\ files' = hist_save_data_eig(files,
                                       YearBranchTable(files[path]),
                                       year, interval, "01")
                       /\ eig_written' = eig_written \cup
                            {[task |-> <<year, interval>>,
                              key |-> EigPath(year, interval, "01")]}
                       /\ eig_pc' = [eig_pc EXCEPT ![interval] = "done"]
                       /\ UNCHANGED <<t_idx, time_int, eig_stdout>>
                  ELSE /\ eig_pc' = [eig_pc EXCEPT ![interval] = "nodata"]
                       /\ eig_stdout' = [eig_stdout EXCEPT
                                           ![interval] = ExceptPrints(path)]
                       /\ UNCHANGED <<files, t_idx, time_int, eig_written>>
          ELSE /\ time_int' = [time_int EXCEPT
                                 ![interval] = DateRange(year, periods, freq)]
               /\ t_idx' = [t_idx EXCEPT ![interval] = 1]
               /\ eig_pc' = [eig_pc EXCEPT ![interval] = "run"]
               /\ UNCHANGED <<files, eig_written, eig_stdout>>
    /\ UNCHANGED <<aggVars, year, tie_rank, btVars, corrVars, sortVars, kernVars, rerun, plot_calls>>

\* The loop with a fault: the try is inside the loop, so a matrix that is
\* not there is reported and the loop goes on with the next index.
EigStepSkipping(interval) ==
    /\ eig_pc[interval] = "run"
    /\ LET t_idx_str == IdxStr(t_idx[interval])
           path == CorrPath(year, interval, t_idx_str)
       IN /\ IF path \in DOMAIN files
             THEN /\ files' = hist_save_data_eig(files,
                                  LoopBranchTable(files[path]),
                                  year, interval, t_idx_str)
                  /\ eig_written' = eig_written \cup
                       {[task |-> <<year, interval>>,
                         key |-> EigPath(year, interval, t_idx_str)]}
                  /\ UNCHANGED eig_stdout
             ELSE /\ eig_stdout' = [eig_stdout EXCEPT
                                      ![interval] = ExceptPrints(path)]
                  /\ UNCHANGED <<files, eig_written>>
          /\ IF t_idx[interval] < EigPeriods(interval)
             THEN /\ t_idx' = [t_idx EXCEPT ![interval] = @ + 1]
                  /\ UNCHANGED eig_pc
             ELSE /\ eig_pc' = [eig_pc EXCEPT ![interval] = "done"]
                  /\ UNCHANGED t_idx
    /\ UNCHANGED <<aggVars, year, tie_rank, btVars, corrVars, time_int,
                   sortVars, kernVars, rerun, plot_calls>>

\* One pass of the loop of lines 94-121.  A matrix that is not there raises
\* FileNotFoundError, which the except of line 127 catches: the task
\* prints 'No data' and returns.
EigStep(interval) ==
    /\ eig_pc[interval] = "run"
    /\ LET t_idx_str == IdxStr(t_idx[interval])
           path == CorrPath(year, interval, t_idx_str)
       IN IF path \in DOMAIN files
          THEN /\ files' = hist_save_data_eig(files,
                               LoopBranchTable(files[path]),
                               year, interval, t_idx_str)
               /\ eig_written' = eig_written \cup
                    {[task |-> <<year, interval>>,
                      key |-> EigPath(year, interval, t_idx_str)]}
               /\ IF t_idx[interval] < EigPeriods(interval)
                  THEN /\ t_idx' = [t_idx EXCEPT ![interval] = @ + 1]
                       /\ UNCHANGED eig_pc
                  ELSE /\ eig_pc' = [eig_pc EXCEPT ![interval] = "done"]
                       /\ UNCHANGED t_idx
               /\ UNCHANGED eig_stdout
          ELSE /\ eig_pc' = [eig_pc EXCEPT ![interval] = "nodata"]
               /\ eig_stdout' = [eig_stdout EXCEPT
                                   ![interval] = ExceptPrints(path)]
               /\ UNCHANGED <<files, t_idx, eig_written>>
    /\ UNCHANGED <<aggVars, year, tie_rank, btVars, corrVars, time_int, sortVars, kernVars, rerun, plot_calls>>

EigStartAny == \E interval \in Intervals : EigStart(interval)
EigStepAny == \E interval \in Intervals : EigStep(interval)

NextEig == EigStartAny \/ EigStepAny

SpecEig == InitEig /\ [][NextEig]_vars

(***************************************************************************)
(* The sorting of one decomposition, on every matrix of the bounds         *)
(***************************************************************************)
InitSort ==
    /\ year \in Years
    /\ tie_rank \in Perms(NumPairs)
    /\ files = NoFiles
    /\ sort_pc = "loaded"
    /\ fx_corr \in {[columns |-> fx_pairs, eig_val |-> v] :
                      v \in [1..NumPairs -> 1..MaxEig]}
    /\ eig_vec_sort_df = NoTable
    /\ IdleAgg /\ IdleBuild /\ IdleCorr /\ IdleEig /\ IdleKern
    /\ rerun = FALSE
    /\ plot_calls = <<>>

SortYear ==
    /\ sort_pc = "loaded"
    /\ eig_vec_sort_df' = YearBranchTable(fx_corr)
    /\ sort_pc' = "year"
    /\ UNCHANGED <<aggVars, files, year, tie_rank, btVars, corrVars, eigVars, fx_corr, kernVars, rerun, plot_calls>>

SortLoop ==
    /\ sort_pc = "loaded"
    /\ eig_vec_sort_df' = LoopBranchTable(fx_corr)
    /\ sort_pc' = "loop"
    /\ UNCHANGED <<aggVars, files, year, tie_rank, btVars, corrVars, eigVars, fx_corr, kernVars, rerun, plot_calls>>

NextSort == SortYear \/ SortLoop

SpecSort == InitSort /\ [][NextSort]_vars

(***************************************************************************)
(* One call of the Kernel, on every partition of the bounds                *)
(***************************************************************************)
\* The partitions of at most MaxLen rows, and the missing one.
KernelInputs ==
    {Absent} \cup
    UNION {{[present |-> TRUE, M |-> m, S |-> s] :
               m \in [1..n -> Mids], s \in [1..n -> Signs]} : n \in 0..MaxLen}

InitKernel ==
    /\ kern_pc = "ready"
    /\ kern_arg \in KernelInputs
    /\ kern_ret = Pending
    /\ files = NoFiles
    /\ year \in Years
    /\ tie_rank = [i \in 1..NumPairs |-> i]
    /\ rerun = FALSE
    /\ plot_calls = <<>>
    /\ IdleAgg /\ IdleBuild /\ IdleCorr /\ IdleEig /\ IdleSort

KernelCall ==
    /\ kern_pc = "ready"
    /\ kern_ret' = Kernel(kern_arg)
    /\ kern_pc' = "returned"
    /\ UNCHANGED <<aggVars, files, year, tie_rank, btVars, corrVars, eigVars,
                   sortVars, kern_arg, rerun, plot_calls>>

NextKernel == KernelCall

SpecKernel == InitKernel /\ [][NextKernel]_vars

(***************************************************************************)
(* A stage run again on the Store it was run on                            *)
(***************************************************************************)
\* The Stores of the runs that are repeated: the complete one, and one with
\* a single file left out.
RerunGaps ==
    {gap \in [1..NumPairs -> GapChoices] :
        Cardinality({c \in 1..NumPairs : gap[c] # 0}) <= 1}

RerunMatrixGaps == {{}, {<<"week", 2>>}, {<<"month", 12>>}, {<<"year", 1>>}}

InitRerun ==
    /\ rerun = FALSE
    /\ plot_calls = <<>>
    /\ year \in Years
    /\ tie_rank = [i \in 1..NumPairs |-> i]
    /\ IdleCorr /\ IdleSort /\ IdleKern
    /\ \/ /\ partitions \in [WeekIdx -> SamplePartitions \cup {Absent}]
          /\ agg_pc = "idle"
          /\ self_values = [w \in WeekIdx |-> Pending]
          /\ completed = <<>>
          /\ self_response_val = <<>>
          /\ self_response_avg = <<>>
          /\ files = NoFiles
          /\ IdleBuild /\ IdleEig
       \/ /\ \E gap \in RerunGaps : files = StoreOf(gap)
          /\ bt_pc = "idle"
          /\ bt_pair = 1
          /\ bt_week = 1
          /\ fx_series_concat = <<>>
          /\ fx_df_concat = <<>>
          /\ IdleAgg /\ IdleEig
       \/ /\ \E gaps \in RerunMatrixGaps : files = CorrStoreOf(gaps)
          /\ eig_pc = [i \in Intervals |-> "queued"]
          /\ t_idx = [i \in Intervals |-> 0]
          /\ time_int = [i \in Intervals |-> <<>>]
          /\ eig_written = {}
          /\ eig_stdout = [i \in Intervals |-> <<>>]
          /\ IdleAgg /\ IdleBuild

\* The aggregator is called again for the same (fx_pair, year).
AggRerun ==
    /\ agg_pc = "done"
    /\ agg_pc' = "idle"
    /\ self_values' = [w \in WeekIdx |-> Pending]
    /\ completed' = <<>>
    /\ self_response_val' = <<>>
    /\ self_response_avg' = <<>>
    /\ rerun' = TRUE
    /\ UNCHANGED <<partitions, files, year, tie_rank, btVars, corrVars,
                   eigVars, sortVars, kernVars, plot_calls>>

\* The return table's construction is called again for the same year.
BtRerun ==
    /\ bt_pc \in {"done", "nodata"}
    /\ bt_pc' = "idle"
    /\ rerun' = TRUE
    /\ UNCHANGED <<bt_pair, bt_week, fx_series_concat, fx_df_concat>>
    /\ UNCHANGED <<aggVars, files, year, tie_rank, corrVars, eigVars,
                   sortVars, kernVars, plot_calls>>

\* The pool of the eigenvectors main is run again for the same years.
EigRerun ==
    /\ \A i \in Intervals : eig_pc[i] \in {"done", "nodata"}
    /\ eig_pc' = [i \in Intervals |-> "queued"]
    /\ t_idx' = [i \in Intervals |-> 0]
    /\ time_int' = [i \in Intervals |-> <<>>]
    /\ eig_stdout' = [i \in Intervals |-> <<>>]
    /\ rerun' = TRUE
    /\ UNCHANGED <<aggVars, files, year, tie_rank, btVars, corrVars,
                   eig_written, sortVars, kernVars, plot_calls>>

NextRerun ==
    \/ AggDispatch \/ AggKernelTask \/ AggReduce \/ AggRerun
    \/ BtStart \/ BtLoad \/ BtSave \/ BtRerun
    \/ EigStartAny \/ EigStepAny \/ EigRerun

SpecRerun == InitRerun /\ [][NextRerun]_vars

(***************************************************************************)
(* The three stages one after the other on one file system: the return     *)
(* table, then the correlation of every interval, then the eigenvectors    *)
(***************************************************************************)
InitChain ==
    /\ rerun = FALSE
    /\ plot_calls = <<>>
    /\ year \in Years
    /\ tie_rank = [i \in 1..NumPairs |-> i]
    /\ \E gap \in RerunGaps : files = StoreOf(gap)
    /\ bt_pc = "idle"
    /\ bt_pair = 1
    /\ bt_week = 1
    /\ fx_series_concat = <<>>
    /\ fx_df_concat = <<>>
    /\ corr_pc = [i \in Intervals |-> "idle"]
    /\ corr_shown = [i \in Intervals |-> <<>>]
    /\ eig_pc = [i \in Intervals |-> "queued"]
    /\ t_idx = [i \in Intervals |-> 0]
    /\ time_int = [i \in Intervals |-> <<>>]
    /\ eig_written = {}
    /\ eig_stdout = [i \in Intervals |-> <<>>]
    /\ IdleAgg /\ IdleSort /\ IdleKern

\* The correlation stage is run when the return table's construction has
\* ended.
ChainCorrelate ==
    /\ bt_pc \in {"done", "nodata"}
    /\ CorrelateAny

CorrelationEnded == \A i \in Intervals : corr_pc[i] \in {"done", "nodata"}

\* The eigenvectors pool is run when the correlation stage has ended.
ChainEigStart ==
    /\ CorrelationEnded
    /\ EigStartAny

NextChain ==
    \/ BtStart \/ BtLoad \/ BtSave
    \/ ChainCorrelate
    \/ ChainEigStart \/ EigStepAny

SpecChain == InitChain /\ [][NextChain]_vars

(***************************************************************************)
(* The driver of the eigenvectors main (hist_data_plot_generator): the     *)
(* pool, then the plot of every (year, interval)                           *)
(***************************************************************************)
\* The keys one plot call opens (plot lines 76-90): those of per = 1, 2, ..
\* up to the first that is not there, at which the open raises and the
\* except of the plot ends the call; all of them when none is missing.
PlotOpened(y, interval) ==
    {EigPath(y, interval, PerStr(per)) : per \in
        {p \in 1..PlotPeriods(interval) :
            \A z \in 1..(p - 1) :
                EigPath(y, interval, PerStr(z)) \in DOMAIN files}}

\* One pass of the loops of main lines 58-64, entered when the with block
\* of the pool has been left: starmap has returned, every task has ended.
\* The figure the plot saves is not a key of the Sink.
PlotCall ==
    /\ \A i \in Intervals : eig_pc[i] \in {"done", "nodata"}
    /\ Len(plot_calls) < Len(years) * Len(intervals)
    /\ LET n == Len(plot_calls)
           y == years[(n \div Len(intervals)) + 1]
           interval == intervals[(n % Len(intervals)) + 1]
       IN plot_calls' = Append(plot_calls,
                               [year |-> y, interval |-> interval,
                                opened |-> PlotOpened(y, interval)])
    /\ UNCHANGED <<aggVars, files, year, tie_rank, btVars, corrVars, eigVars,
                   sortVars, kernVars, rerun>>

NextDriver == EigStartAny \/ EigStepAny \/ PlotCall

SpecDriver == InitEig /\ [][NextDriver]_vars

NextBuild == BtStart \/ BtLoad \/ BtSave \/ CorrelateAny

SpecBuild == InitBuild /\ [][NextBuild]_vars

SpecAgg == InitAgg /\ [][NextAgg]_vars

(***************************************************************************)
(* Properties                                                              *)
(***************************************************************************)
IsZero(q) == q.kind = "finite" /\ q.n = 0

AccAdd(a, b) == [num |-> [k \in Lags |-> a.num[k] + b.num[k]],
                 den |-> [k \in Lags |-> a.den[k] + b.den[k]]]

RECURSIVE AccSumSet(_, _)
AccSumSet(S, f) ==
    IF S = {} THEN ZeroAcc
    ELSE LET w == CHOOSE x \in S : TRUE IN AccAdd(f[w], AccSumSet(S \ {w}, f))

PresentWeeks == {w \in WeekIdx : partitions[w].present}

\* C1: when the aggregator has finished, at every lag whose summed
\* denominator is 0 the emitted response is exactly 0 (a finite value, not
\* NaN or Inf).
C1_ZeroWhereNoTrades ==
    agg_pc = "done" =>
        \A k \in Lags :
            self_response_avg[k] = 0 => IsZero(self_response_val[k])

CompletePairs ==
    {c \in 1..Len(fx_pairs) :
        \A w \in 1..WeeksInYear :
            BasicPath(fx_pairs[c], year, hist_weeks[w]) \in DOMAIN files}

\* C2: when the function has returned and some weekly partition was absent,
\* the year's table has been saved and holds a column for every pair whose
\* 53 partitions all exist.
C2_OnlyTheIncompletePairOmitted ==
    (bt_pc \in {"done", "nodata"} /\ CompletePairs # 1..Len(fx_pairs)) =>
        /\ ReturnsPath(year) \in DOMAIN files
        /\ \A c \in CompletePairs :
              \E j \in 1..Len(files[ReturnsPath(year)]) :
                  files[ReturnsPath(year)][j].name = fx_pairs[c]

\* C9: a call of the correlation stage that found the return table has
\* produced one matrix per index the extractor iterates over: 52 for week,
\* 12 for month, 4 for quarter, 1 for year.
C9_OneMatrixPerPeriod ==
    \A i \in Intervals :
        corr_pc[i] = "done" =>
            Len(corr_shown[i]) = Cardinality(CorrIndices(i))

\* C3: when a task has returned, the table of every index of its interval
\* whose correlation matrix is present has been written.
C3_OnlyTheMissingIndexSkipped ==
    \A i \in Intervals :
        eig_pc[i] \in {"done", "nodata"} =>
            \A x \in CorrIndices(i) :
                CorrPath(year, i, IdxStr(x)) \in DOMAIN files
                    => EigPath(year, i, IdxStr(x)) \in DOMAIN files

\* The slice of index k of an interval, delimited by the range the task
\* computed: from its boundary to the day before the next one, the last
\* one to the end of the year.
SliceDays(b, k) ==
    IF k < Len(b) THEN b[k]..(b[k + 1] - 1) ELSE b[k]..DaysIn(year)

\* C10: for week, month and quarter the slices begin on January 1, there
\* are `periods` of them, and every day of the year lies in exactly one.
C10_SlicesCoverTheYear ==
    \A i \in Intervals \ {"year"} :
        time_int[i] # <<>> =>
            /\ Len(time_int[i]) = EigPeriods(i)
            /\ time_int[i][1] = 1
            /\ \A day \in 1..DaysIn(year) :
                  Cardinality({k \in 1..Len(time_int[i]) :
                                  day \in SliceDays(time_int[i], k)}) = 1

Sorted == sort_pc \in {"year", "loop"}

OutVal(k) == fx_corr.eig_val[eig_vec_sort_df.data[k]]

\* C4: in both branches, output column k is an eigenvector column of the
\* input, each used once, the eigenvalues of columns 1..n do not increase,
\* and the first column belongs to the largest eigenvalue.
C4_ColumnsByDescendingEigenvalue ==
    Sorted =>
        LET n == Len(fx_corr.eig_val)
        IN /\ Len(eig_vec_sort_df.data) = n
           /\ {eig_vec_sort_df.data[k] : k \in 1..n} = 1..n
           /\ \A k \in 1..(n - 1) : OutVal(k) >= OutVal(k + 1)
           /\ \A j \in 1..n : OutVal(1) >= fx_corr.eig_val[j]

C4_Witness ==
    /\ sort_pc = "loop"
    /\ fx_corr.eig_val[1] < fx_corr.eig_val[Len(fx_corr.eig_val)]
    /\ OutVal(1) > OutVal(Len(fx_corr.eig_val))

\* C5: the label of output column k is the label of the input column whose
\* eigenvector is output column k, ties included, and the output labels are
\* the input labels rearranged.
C5_LabelsFollowTheEigenvectors ==
    Sorted =>
        LET n == Len(fx_corr.columns)
        IN /\ Len(eig_vec_sort_df.columns) = n
           /\ \A k \in 1..n :
                 eig_vec_sort_df.columns[k]
                     = fx_corr.columns[eig_vec_sort_df.data[k]]
           /\ \E p \in Perms(n) :
                 eig_vec_sort_df.columns = Take(fx_corr.columns, p)

C5_Witness ==
    /\ sort_pc = "year"
    /\ \E j, k \in 1..Len(fx_corr.eig_val) :
          j # k /\ fx_corr.eig_val[j] = fx_corr.eig_val[k]
    /\ eig_vec_sort_df.columns # fx_corr.columns
    /\ eig_vec_sort_df.columns # Reverse(fx_corr.columns)

\* C6, as claimed: of two equal eigenvalues the one with the smaller
\* original index comes first in the output.
C6_TiesKeepFirstSeenOrder ==
    Sorted =>
        \A k, l \in 1..Len(eig_vec_sort_df.data) :
            (k < l /\ OutVal(k) = OutVal(l))
                => eig_vec_sort_df.data[k] < eig_vec_sort_df.data[l]

\* C6, amended: the output order is the reverse of argsort's ascending
\* order, so of two equal eigenvalues the one argsort places later comes
\* first; with a stable argsort that is the one with the larger original
\* index.
C6_TiesReverseArgsortOrder ==
    Sorted =>
        /\ \A k, l \in 1..Len(eig_vec_sort_df.data) :
              (k < l /\ OutVal(k) = OutVal(l))
                  => tie_rank[eig_vec_sort_df.data[k]]
                         > tie_rank[eig_vec_sort_df.data[l]]
        /\ tie_rank = [i \in 1..NumPairs |-> i] =>
              \A k, l \in 1..Len(eig_vec_sort_df.data) :
                  (k < l /\ OutVal(k) = OutVal(l))
                      => eig_vec_sort_df.data[k] > eig_vec_sort_df.data[l]

C6_Witness ==
    /\ sort_pc = "year"
    /\ tie_rank = [i \in 1..NumPairs |-> i]
    /\ fx_corr.eig_val[1] = fx_corr.eig_val[2]
    /\ \E k \in 1..(Len(eig_vec_sort_df.data) - 1) :
          eig_vec_sort_df.data[k] = 2 /\ eig_vec_sort_df.data[k + 1] = 1

\* The sum of the denominators the weekly Kernel calls returned, taken over
\* the set of weeks.
WeeklyDenominatorSum == AccSumSet(WeekIdx, self_values).den

Digit == <<"0", "1", "2", "3", "4", "5", "6", "7", "8", "9">>

\* The two characters of n, for n below 100.
TwoDigits(n) == Digit[(n \div 10) + 1] \o Digit[(n % 10) + 1]

SeqRange(s) == {s[k] : k \in 1..Len(s)}

C19_OneColumnPerInstrument ==
    bt_pc \in {"save", "done"} =>
        /\ Len(fx_df_concat) = Len(fx_pairs)
        /\ \A c \in 1..Len(fx_pairs) :
              /\ fx_df_concat[c].name = fx_pairs[c]
              /\ Len(fx_df_concat[c].data) = 53
              /\ \A w \in 1..53 :
                    fx_df_concat[c].data[w] =
                        BasicPath(fx_pairs[c], year, TwoDigits(w))
        /\ bt_pc = "done" => files[ReturnsPath(year)] = fx_df_concat

C19_Witness ==
    /\ bt_pc = "done"
    /\ Len(fx_df_concat) = NumPairs
    /\ fx_df_concat[NumPairs].name = fx_pairs[NumPairs]
    /\ Len(fx_df_concat[NumPairs].data) = WeeksInYear

\* The keys of the stages, compared as strings: what a consumer opens is
\* what the producer's save helper wrote, and the zero-padded indices keep
\* the keys of distinct weeks and of distinct indices apart.
KeysAgree ==
    /\ \A y \in Years, c \in 1..NumPairs, w \in 1..WeeksInYear :
          BasicPath(fx_pairs[c], y, hist_weeks[w])
              = BasicSavePath(fx_pairs[c], y, hist_weeks[w])
    /\ \A y \in Years, c \in 1..NumPairs, v, w \in 1..WeeksInYear :
          v # w => BasicSavePath(fx_pairs[c], y, hist_weeks[v])
                      # BasicSavePath(fx_pairs[c], y, hist_weeks[w])
    /\ \A y \in Years, c, d \in 1..NumPairs :
          c # d => BasicSavePath(fx_pairs[c], y, "01")
                      # BasicSavePath(fx_pairs[d], y, "01")
    /\ \A y \in Years : CorrReturnsPath(y) = ReturnsPath(y)
    /\ \A i \in Intervals :
          /\ PlotPeriods(i) = Cardinality(CorrIndices(i))
          /\ \A per \in 1..PlotPeriods(i) :
                /\ PerStr(per) = TwoDigits(per)
                /\ PerStr(per) = IdxStr(per)
    /\ \A y \in Years, i \in Intervals :
          \A a, b \in 1..PlotPeriods(i) :
              a # b => EigPath(y, i, IdxStr(a)) # EigPath(y, i, IdxStr(b))

C15_ZeroSignsGiveZeroAccumulator ==
    kern_pc = "returned" =>
        /\ (\A i \in 1..Len(kern_arg.S) : kern_arg.S[i] = 0)
              => kern_ret = ZeroAcc
        /\ \A k \in Lags : kern_ret.den[k] = 0 => kern_ret.num[k] = 0

C15_Witness ==
    /\ kern_pc = "returned"
    /\ Len(kern_arg.S) = MaxLen
    /\ \A i \in 1..Len(kern_arg.S) : kern_arg.S[i] = 0
    /\ \E i, j \in 1..Len(kern_arg.M) : kern_arg.M[i] # kern_arg.M[j]
    /\ kern_ret = ZeroAcc

RECURSIVE SetSum(_, _)
SetSum(S, f) ==
    IF S = {} THEN 0
    ELSE LET x == CHOOSE y \in S : TRUE IN f[x] + SetSum(S \ {x}, f)

\* midpoint' = M[:-1] and sign' = S[1:], indexed from 0.
MidpointAt(i) == kern_arg.M[i + 1]
SignAt(i) == kern_arg.S[i + 2]
AlignedLen == IF Len(kern_arg.M) = 0 THEN 0 ELSE Len(kern_arg.M) - 1

\* The i of lag tau: those with i + tau + 1 < len(midpoint').
ValidAt(tau) == {i \in 0..(AlignedLen - 1) : i + tau + 1 < AlignedLen}

\* C16: for every lag tau in [0, T) the Kernel's denominator is the number
\* of valid i (i + tau + 1 < len(midpoint')) with sign'[i] # 0 and its
\* numerator is the sum over the valid i of
\* sign'[i] * (midpoint'[i+tau+1] - midpoint'[i]) / midpoint'[i]; the output
\* has exactly T entries, a lag with no valid i has 0 and 0, and the signs
\* [0, 1, -1, 1] give the denominators 2 and 1 at lags 0 and 1.
C16_LagAlignment ==
    kern_pc = "returned" /\ kern_arg.present =>
        /\ DOMAIN kern_ret.num = 1..MaxLag
        /\ DOMAIN kern_ret.den = 1..MaxLag
        /\ \A tau \in 0..(MaxLag - 1) :
              /\ kern_ret.den[tau + 1] =
                    Cardinality({i \in ValidAt(tau) : SignAt(i) # 0})
              /\ kern_ret.num[tau + 1] =
                    SetSum(ValidAt(tau),
                           [i \in ValidAt(tau) |->
                               SignAt(i)
                               * (MidpointAt(i + tau + 1) - MidpointAt(i))
                               * (PriceScale \div MidpointAt(i))])
              /\ ValidAt(tau) = {} =>
                    kern_ret.den[tau + 1] = 0 /\ kern_ret.num[tau + 1] = 0
        /\ kern_arg.S = <<0, 1, -1, 1>> =>
              kern_ret.den[1] = 2 /\ kern_ret.den[2] = 1

C16_Witness ==
    /\ kern_pc = "returned"
    /\ kern_arg.M = <<1, 2, 1, 2>>
    /\ kern_arg.S = <<0, 1, -1, 1>>
    /\ kern_ret.den[1] = 2
    /\ kern_ret.den[2] = 1
    /\ kern_ret.num[1] # 0

EigFinished == \A i \in Intervals : eig_pc[i] \in {"done", "nodata"}

\* The indices of an interval that a task reaches: those before the first
\* matrix that is not in the Store.
ReachedIndices(i) ==
    {x \in CorrIndices(i) :
        \A z \in 1..x : CorrPath(year, i, IdxStr(z)) \in DOMAIN files}

TableOf(i, corr) ==
    IF i = "year" THEN YearBranchTable(corr) ELSE LoopBranchTable(corr)

\* The keys of the extraction pool's tasks, one per (fx_pair, year, week).
ExtractionKeysDistinct ==
    \A y \in Years, c, d \in 1..NumPairs, v, w \in 1..WeeksInYear :
        <<c, v>> # <<d, w>> =>
            BasicSavePath(fx_pairs[c], y, hist_weeks[v])
                # BasicSavePath(fx_pairs[d], y, hist_weeks[w])

FirstMissing(i) ==
    CHOOSE x \in CorrIndices(i) :
        /\ CorrPath(year, i, IdxStr(x)) \notin DOMAIN files
        /\ x - 1 \in ReachedIndices(i) \cup {0}

\* C14: every unit that is skipped is reported with the key that was
\* missing, the run goes on, and the status of a run that skipped at least
\* one unit differs from the status of a run that skipped none.
C14_StatusTellsSkippedRuns ==
    /\ \A i \in Intervals :
          eig_pc[i] = "nodata" =>
              /\ eig_stdout[i] =
                    ExceptPrints(CorrPath(year, i, IdxStr(FirstMissing(i))))
              /\ TaskReturn(eig_pc[i]) # TaskReturn("done")
    /\ (EigFinished /\ \E i \in Intervals : eig_pc[i] = "nodata") =>
          ExitStatus(eig_pc) # ExitStatus([i \in Intervals |-> "done"])

\* The keys a stage writes on the Store it is given.
StageKeys ==
    IF agg_pc # "off" THEN {ResponsePath(fx_pair, year)}
    ELSE IF bt_pc # "off" THEN {ReturnsPath(year)}
    ELSE {EigPath(year, i, IdxStr(x)) : i \in Intervals, x \in 1..52}

C11_StagesChainThroughTheSink ==
    /\ CorrReturnsPath(year) = ReturnsPath(year)
    /\ \A i \in Intervals :
          corr_pc[i] = "done" =>
              /\ corr_shown[i] = <<Corr(files[ReturnsPath(year)])>>
              /\ \A x \in CorrIndices(i) :
                    CorrPath(year, i, IdxStr(x)) \in DOMAIN files
    /\ (bt_pc = "done" /\ CorrelationEnded /\ EigFinished) =>
          \A i \in Intervals, x \in 1..52 :
              x \in CorrIndices(i) =>
                  /\ CorrPath(year, i, IdxStr(x)) \in DOMAIN files
                  /\ EigPath(year, i, IdxStr(x)) \in DOMAIN files
                  /\ files[EigPath(year, i, IdxStr(x))] =
                        TableOf(i, files[CorrPath(year, i, IdxStr(x))])

\* The indices of an interval whose eigenvector table is in the Sink.
TablesWritten(i) ==
    {x \in 1..52 : EigPath(year, i, TwoDigits(x)) \in DOMAIN files}

MultiPeriod == Intervals \ {"year"}

\* C21: a task of a multi-period interval goes through the indices in
\* ascending order and the tables it has written are always a prefix: while
\* it is at index t they are those of 1 .. t-1; when the first matrix that
\* is not there has index k, the task ends with exactly the tables of
\* 1 .. k-1 in the Sink, which stay there, and with no table of an index
\* from k on, whether its matrix is there or not.
C21_TablesWrittenAreAPrefix ==
    \A i \in MultiPeriod :
        /\ eig_pc[i] = "queued" => TablesWritten(i) = {}
        /\ eig_pc[i] = "run" =>
              /\ t_idx[i] \in 1..EigPeriods(i)
              /\ TablesWritten(i) = 1..(t_idx[i] - 1)
        /\ eig_pc[i] = "nodata" =>
              /\ t_idx[i] = FirstMissing(i)
              /\ TablesWritten(i) = 1..(FirstMissing(i) - 1)
              /\ \A x \in 1..(FirstMissing(i) - 1) :
                    files[EigPath(year, i, TwoDigits(x))] =
                        LoopBranchTable(files[CorrPath(year, i, TwoDigits(x))])
        /\ eig_pc[i] = "done" => TablesWritten(i) = 1..EigPeriods(i)

C21_Witness ==
    /\ EigFinished
    /\ \E i \in MultiPeriod :
          /\ eig_pc[i] = "nodata"
          /\ FirstMissing(i) = 2
          /\ TablesWritten(i) = {1}
          /\ CorrPath(year, i, TwoDigits(3)) \in DOMAIN files

\* Every weekly file of every pair of the list is in the Store.
AllPartitionsPresent ==
    \A c \in 1..Len(fx_pairs), w \in 1..53 :
        BasicSavePath(fx_pairs[c], year, TwoDigits(w)) \in DOMAIN files

\* C22: the return table's construction writes the year's table if and
\* only if all 53 weekly files of every pair were read; when one file is
\* not there the function returns ('nodata') and has written nothing: the
\* table's key does not exist and the weekly files are as they were.
C22_TableWrittenOnlyWhenAllWereRead ==
    /\ ReturnsPath(year) \in DOMAIN files <=> bt_pc = "done"
    /\ bt_pc \in {"save", "done"} => AllPartitionsPresent
    /\ bt_pc = "nodata" =>
          /\ ~AllPartitionsPresent
          /\ \A q \in DOMAIN files : files[q] = BasicData(q)
    /\ bt_pc = "done" =>
          /\ Len(files[ReturnsPath(year)]) = Len(fx_pairs)
          /\ \A q \in DOMAIN files \ {ReturnsPath(year)} :
                files[q] = BasicData(q)

C22_Witness ==
    /\ bt_pc = "nodata"
    /\ bt_pair = NumPairs
    /\ bt_week = WeeksInYear
    /\ Len(fx_df_concat) = NumPairs - 1
    /\ ReturnsPath(year) \notin DOMAIN files

PositionIn(s, e) == CHOOSE k \in 1..Len(s) : s[k] = e

\* The number of tables of a kind of interval.
TablesOfKind(i) ==
    CASE i = "week" -> 52 [] i = "month" -> 12 [] i = "quarter" -> 4
      [] i = "year" -> 1

====
